---- MODULE Spec2Model ----
(***************************************************************************)
(* State-machine model of src/app.py, the Streamlit dashboard              *)
(* "AEP ZIP Market Analysis".                                              *)
(*                                                                         *)
(* A Streamlit script is re-executed top to bottom on every widget         *)
(* interaction.  One execution ("run") is modelled as the chain            *)
(*   load_data -> load_geojson -> totals -> sidebar -> render              *)
(* with the st.cache_data memo and the widget state surviving between      *)
(* runs.  Strings are tuples of one-character strings so that the regular  *)
(* expression, zfill and sorted() are computed and not assumed.            *)
(***************************************************************************)
EXTENDS Integers, Sequences, FiniteSets, TLC

VARIABLES
    disk,               \* the workbook file FILE_PATH as it is on disk
    tieBreak,           \* how this build's default sort kind leaves equal keys
    cache,              \* st.cache_data memo of load_data / load_geojson
    pc,                 \* position of the script run ("idle": no run active)
    outcome,            \* how the last finished run ended
    sidebar_selection,  \* widget state of st.sidebar.multiselect
    tables,             \* pivot, top5, ee_map as returned to the script
    geojson_data,       \* value returned by load_geojson
    zip_totals,         \* module-level frame of lines 47-60
    final_selected_zips,\* line 67
    multi_data,         \* line 73
    page                \* the elements the current run has emitted

vars == << disk, tieBreak, cache, pc, outcome, sidebar_selection, tables,
           geojson_data, zip_totals, final_selected_zips, multi_data, page >>

----------------------------------------------------------------------------
(* Bounds of the model *)

\* most rows of the "With EE Mapping" sheet under Spec
MaxRows == 2
\* most rows of the "With EE Mapping" sheet under SpecLoad
MaxRawRows == 1

----------------------------------------------------------------------------
(* Strings *)

Digits == {"0", "1", "2", "3", "4", "5", "6", "7", "8", "9"}

\* ord() of the characters that occur in the inputs
Ord == [c \in Digits \cup {" ", "-", "A", "I", "P", "V", "Z"} |->
          CASE c = " " -> 32 [] c = "-" -> 45
            [] c = "0" -> 48 [] c = "1" -> 49 [] c = "2" -> 50 [] c = "3" -> 51
            [] c = "4" -> 52 [] c = "5" -> 53 [] c = "6" -> 54 [] c = "7" -> 55
            [] c = "8" -> 56 [] c = "9" -> 57
            [] c = "A" -> 65 [] c = "I" -> 73 [] c = "P" -> 80
            [] c = "V" -> 86 [] c = "Z" -> 90]

DigitVal(c) == Ord[c] - Ord["0"]

\* Python's str < str: lexicographic on code points, a proper prefix is less
RECURSIVE StrLess(_, _)
StrLess(a, b) ==
    IF b = << >> THEN FALSE
    ELSE IF a = << >> THEN TRUE
    ELSE IF Head(a) # Head(b) THEN Ord[Head(a)] < Ord[Head(b)]
    ELSE StrLess(Tail(a), Tail(b))

\* sorted(S) for a set of strings
RECURSIVE SortedStrings(_)
SortedStrings(S) ==
    IF S = {} THEN << >>
    ELSE LET m == CHOOSE x \in S : \A y \in S \ {x} : StrLess(x, y)
         IN  << m >> \o SortedStrings(S \ {m})

----------------------------------------------------------------------------
(* Spreadsheet cells *)

NaN == [kind |-> "nan", num |-> 0, txt |-> << >>]
IntCell(n) == [kind |-> "int", num |-> n, txt |-> << >>]
\* a float cell, held in tenths: FloatCell(27) is 2.7
FloatCell(t) == [kind |-> "float", num |-> t, txt |-> << >>]
StrCell(s) == [kind |-> "str", num |-> 0, txt |-> s]

AllDigits(s) == \A i \in 1..Len(s) : s[i] \in Digits

RECURSIVE DecimalValue(_)
DecimalValue(s) ==
    IF s = << >> THEN 0
    ELSE 10 * DecimalValue(SubSeq(s, 1, Len(s) - 1)) + DigitVal(s[Len(s)])


\* pd.to_numeric(cell, errors="coerce") on one cell: a number stays, text that
\* is an optionally signed decimal integer is parsed, anything else is NaN
ToNumeric(cell) ==
    CASE cell.kind = "int" -> cell
      [] cell.kind = "float" -> cell
      [] cell.kind = "str" ->
            LET s == cell.txt
                neg == s # << >> /\ Head(s) = "-"
                body == IF neg THEN Tail(s) ELSE s
            IN  IF body # << >> /\ AllDigits(body)
                THEN IntCell(IF neg THEN 0 - DecimalValue(body) ELSE DecimalValue(body))
                ELSE NaN
      [] OTHER -> NaN

\* .fillna(0)
FillNa0(cell) == IF cell.kind = "nan" THEN IntCell(0) ELSE cell

\* .astype(int): a float is truncated toward zero, the sign is kept
AsTypeInt(cell) ==
    IF cell.kind = "float"
    THEN IF cell.num >= 0 THEN cell.num \div 10 ELSE 0 - ((0 - cell.num) \div 10)
    ELSE cell.num

\* variant of CoerceEstab: the count is clipped at 0
CoerceEstabClipped(cell) ==
    LET n == AsTypeInt(FillNa0(ToNumeric(cell))) IN IF n < 0 THEN 0 ELSE n

\* line 26, on one cell of the ESTAB column
CoerceEstab(cell) == AsTypeInt(FillNa0(ToNumeric(cell)))

\* lines 24-26, on one table: only a table that has an ESTAB column is touched
CoerceTable(t) ==
    IF "ESTAB" \in t.cols
    THEN [t EXCEPT !.rows = [i \in 1..Len(t.rows) |->
                               [t.rows[i] EXCEPT !.ESTAB = CoerceEstab(@)]]]
    ELSE t

----------------------------------------------------------------------------
(* ZIP extraction, lines 28-31 *)

\* the number of digits of the regular expression r"(\d{5})"
ZipLen == 5
\* the width given to str.zfill
ZipWidth == 5

\* leftmost match of \d{5} in s at or after position i; << >> when there is none
RECURSIVE FindRun(_, _)
FindRun(s, i) ==
    IF i + ZipLen - 1 > Len(s) THEN << >>
    ELSE IF AllDigits(SubSeq(s, i, i + ZipLen - 1)) THEN SubSeq(s, i, i + ZipLen - 1)
    ELSE FindRun(s, i + 1)

\* variant of ExtractZip: without a match, the first ZipLen digits that are
\* left after the non-digits are stripped
ExtractZipWithFallback(cell) ==
    IF cell.kind # "str" THEN NaN
    ELSE LET m == FindRun(cell.txt, 1)
             IsDigit(c) == c \in Digits
             stripped == SelectSeq(cell.txt, IsDigit)
         IN  IF m # << >> THEN StrCell(m)
             ELSE IF Len(stripped) >= ZipLen THEN StrCell(SubSeq(stripped, 1, ZipLen))
             ELSE NaN

\* Series.str.extract(r"(\d{5})") on one cell: NaN for a missing or non-text
\* cell and for text without a match
ExtractZip(cell) ==
    IF cell.kind # "str" THEN NaN
    ELSE LET m == FindRun(cell.txt, 1)
         IN  IF m = << >> THEN NaN ELSE StrCell(m)

\* str.zfill(w): pad on the left with "0", after a leading sign
RECURSIVE ZFill(_, _)
ZFill(s, w) ==
    IF Len(s) >= w THEN s
    ELSE IF s # << >> /\ Head(s) \in {"+", "-"}
         THEN << Head(s) >> \o ZFill(Tail(s), w - 1)
         ELSE ZFill(<< "0" >> \o s, w)

\* the valid-prefix set of the specification's examples ("229" is valid)
ValidPrefixes == { << "2", "2", "9" >>, << "2", "4", "0" >> }

\* variant of NormalizeZip: the rows whose prefix is not valid are dropped too
NormalizeZipPrefixFiltered(t) ==
    LET withZip == [i \in 1..Len(t.rows) |->
                      [idx |-> i,
                       NAME |-> t.rows[i].NAME,
                       NAICS2017_LABEL |-> t.rows[i].NAICS2017_LABEL,
                       ESTAB |-> t.rows[i].ESTAB,
                       EE_Opportunity |-> t.rows[i].EE_Opportunity,
                       ZIP |-> ExtractZip(t.rows[i].NAME)]]
        Valid(r) == r.ZIP.kind # "nan" /\ SubSeq(r.ZIP.txt, 1, 3) \in ValidPrefixes
        kept == SelectSeq(withZip, Valid)
    IN  [cols |-> t.cols \cup {"ZIP"},
         rows |-> [i \in 1..Len(kept) |->
                     [kept[i] EXCEPT !.ZIP = ZFill(@.txt, ZipWidth)]]]

\* lines 29-31 on the detail table: add ZIP, drop the rows without one, pad.
\* idx is the DataFrame index label, which dropna keeps.
NormalizeZip(t) ==
    LET withZip == [i \in 1..Len(t.rows) |->
                      [idx |-> i,
                       NAME |-> t.rows[i].NAME,
                       NAICS2017_LABEL |-> t.rows[i].NAICS2017_LABEL,
                       ESTAB |-> t.rows[i].ESTAB,
                       EE_Opportunity |-> t.rows[i].EE_Opportunity,
                       ZIP |-> ExtractZip(t.rows[i].NAME)]]
        HasZip(r) == r.ZIP.kind # "nan"
        kept == SelectSeq(withZip, HasZip)
    IN  [cols |-> t.cols \cup {"ZIP"},
         rows |-> [i \in 1..Len(kept) |->
                     [kept[i] EXCEPT !.ZIP = ZFill(@.txt, ZipWidth)]]]

----------------------------------------------------------------------------
(* The workbook and load_data, lines 18-35 *)

SheetNames == {"ZIP x Sector", "Top5 by ZIP", "With EE Mapping"}

\* variant of ReadExcel: a missing sheet is read as given, without an exception
ReadExcelLenient(wb, s) ==
    IF ~wb.exists THEN [error |-> "FileNotFoundError"] ELSE [error |-> "none"]

\* pd.read_excel(path, sheet_name=s): the sheet, or the exception it raises
ReadExcel(wb, s) ==
    IF ~wb.exists THEN [error |-> "FileNotFoundError"]
    ELSE IF s \notin wb.sheets THEN [error |-> "ValueError"]
    ELSE [error |-> "none"]

\* the .str accessor of line 29 is refused by a column that is not of object
\* dtype: read_excel gives NAME a numeric dtype when the sheet has rows and
\* none of its NAME cells is text
StrAccessorRefused(t) ==
    t.rows # << >> /\ \A i \in 1..Len(t.rows) : t.rows[i].NAME.kind # "str"

\* body of load_data: the first failing statement raises and nothing is
\* returned
LoadDataBody(wb) ==
    LET r1 == ReadExcel(wb, "ZIP x Sector")
        r2 == ReadExcel(wb, "Top5 by ZIP")
        r3 == ReadExcel(wb, "With EE Mapping")
    IN  IF r1.error # "none" THEN [error |-> r1.error, value |-> << >>]
        ELSE IF r2.error # "none" THEN [error |-> r2.error, value |-> << >>]
        ELSE IF r3.error # "none" THEN [error |-> r3.error, value |-> << >>]
        ELSE IF StrAccessorRefused(wb.detail)
             THEN [error |-> "AttributeError", value |-> << >>]
        ELSE [error |-> "none",
              value |-> << [pivot  |-> CoerceTable(wb.pivot),
                            top5   |-> CoerceTable(wb.top5),
                            ee_map |-> NormalizeZip(CoerceTable(wb.detail))] >>]

\* @st.cache_data on load_data: the memo is keyed by the argument (the path,
\* always FILE_PATH), never by the file's contents; an exception is not stored.
\* memo is << >> before the first successful call, << value >> after it.
CachedLoadData(memo, wb) ==
    IF memo # << >>
    THEN [error |-> "none", value |-> memo]
    ELSE LoadDataBody(wb)

----------------------------------------------------------------------------
(* Aggregation: groupby(...)["ESTAB"].sum() and sort_values *)

\* collation rank of the sector and EE labels that occur in the inputs
TextOrd == [t \in {"Construction", "High", "Low", "Retail", "Utilities"} |->
              CASE t = "Construction" -> 1 [] t = "High" -> 2 [] t = "Low" -> 3
                [] t = "Retail" -> 4 [] t = "Utilities" -> 5]

RECURSIVE SortedTexts(_)
SortedTexts(S) ==
    IF S = {} THEN << >>
    ELSE LET m == CHOOSE x \in S : \A y \in S : TextOrd[x] <= TextOrd[y]
         IN  << m >> \o SortedTexts(S \ {m})

PairLess(a, b) ==
    \/ TextOrd[a[1]] < TextOrd[b[1]]
    \/ a[1] = b[1] /\ TextOrd[a[2]] < TextOrd[b[2]]

RECURSIVE SortedPairs(_)
SortedPairs(S) ==
    IF S = {} THEN << >>
    ELSE LET m == CHOOSE x \in S : \A y \in S \ {x} : PairLess(x, y)
         IN  << m >> \o SortedPairs(S \ {m})

\* ["ESTAB"].sum() over the rows of one group, in row order
RECURSIVE SumEstab(_)
SumEstab(rows) ==
    IF rows = << >> THEN 0 ELSE Head(rows).ESTAB + SumEstab(Tail(rows))

\* the keys of a frame in order of first appearance
RECURSIVE FirstSeen(_)
FirstSeen(keys) ==
    IF keys = << >> THEN << >>
    ELSE LET rest == FirstSeen(SubSeq(keys, 1, Len(keys) - 1))
             k == keys[Len(keys)]
         IN  IF \E i \in 1..Len(rest) : rest[i] = k THEN rest ELSE Append(rest, k)

\* variant of GroupByLabel: groupby(..., sort=False), the labels in order of
\* first appearance
GroupByLabelUnsorted(rows) ==
    LET keys == FirstSeen([i \in 1..Len(rows) |-> rows[i].NAICS2017_LABEL])
    IN  [k \in 1..Len(keys) |->
           LET InGroup(r) == r.NAICS2017_LABEL = keys[k]
           IN  [NAICS2017_LABEL |-> keys[k],
                ESTAB |-> SumEstab(SelectSeq(rows, InGroup))]]

\* groupby("NAICS2017_LABEL", as_index=False)["ESTAB"].sum(): one row per
\* label, the labels sorted (sort=True is the default)
GroupByLabel(rows) ==
    LET keys == SortedTexts({rows[i].NAICS2017_LABEL : i \in 1..Len(rows)})
    IN  [k \in 1..Len(keys) |->
           LET InGroup(r) == r.NAICS2017_LABEL = keys[k]
           IN  [NAICS2017_LABEL |-> keys[k],
                ESTAB |-> SumEstab(SelectSeq(rows, InGroup))]]

\* groupby("ZIP", as_index=False)["ESTAB"].sum(), line 47
GroupByZip(rows) ==
    LET keys == SortedStrings({rows[i].ZIP : i \in 1..Len(rows)})
    IN  [k \in 1..Len(keys) |->
           LET InGroup(r) == r.ZIP = keys[k]
           IN  [ZIP |-> keys[k], ESTAB |-> SumEstab(SelectSeq(rows, InGroup))]]

\* groupby(["NAICS2017_LABEL", "EE_Opportunity"], as_index=False)["ESTAB"].sum()
GroupByLabelEE(rows) ==
    LET keys == SortedPairs({<< rows[i].NAICS2017_LABEL, rows[i].EE_Opportunity >> :
                               i \in 1..Len(rows)})
    IN  [k \in 1..Len(keys) |->
           LET InGroup(r) == << r.NAICS2017_LABEL, r.EE_Opportunity >> = keys[k]
           IN  [NAICS2017_LABEL |-> keys[k][1], EE_Opportunity |-> keys[k][2],
                ESTAB |-> SumEstab(SelectSeq(rows, InGroup))]]

RemoveAt(s, i) == SubSeq(s, 1, i - 1) \o SubSeq(s, i + 1, Len(s))

\* variant of SortValuesDesc: sort_values("ESTAB"), ascending
RECURSIVE SortValuesAsc(_, _)
SortValuesAsc(frame, tb) ==
    IF frame = << >> THEN << >>
    ELSE LET low == {i \in 1..Len(frame) :
                       \A j \in 1..Len(frame) : frame[i].ESTAB <= frame[j].ESTAB}
             i == IF tb = "keep"
                  THEN CHOOSE x \in low : \A y \in low : x <= y
                  ELSE CHOOSE x \in low : \A y \in low : x >= y
         IN  << frame[i] >> \o SortValuesAsc(RemoveAt(frame, i), tb)

\* sort_values("ESTAB", ascending=False) with the default kind ("quicksort"),
\* which promises no order among equal keys.  tb is what the build does with
\* them: "keep" leaves equal rows in frame order (the result of a stable
\* argsort, which pandas applies to the reversed column and reverses again),
\* "reverse" leaves them in the opposite order.
RECURSIVE SortValuesDesc(_, _)
SortValuesDesc(frame, tb) ==
    IF frame = << >> THEN << >>
    ELSE LET top == {i \in 1..Len(frame) :
                       \A j \in 1..Len(frame) : frame[j].ESTAB <= frame[i].ESTAB}
             i == IF tb = "keep"
                  THEN CHOOSE x \in top : \A y \in top : x <= y
                  ELSE CHOOSE x \in top : \A y \in top : x >= y
         IN  << frame[i] >> \o SortValuesDesc(RemoveAt(frame, i), tb)

\* the argument of .head()
TopN == 5

\* DataFrame.head(n)
HeadN(frame, n) == SubSeq(frame, 1, IF Len(frame) < n THEN Len(frame) ELSE n)

\* lines 139-142
SectorTotals(md, tb) == SortValuesDesc(GroupByLabel(md), tb)

\* lines 125-129
Top5Chart(md, tb) == HeadN(SortValuesDesc(GroupByLabel(md), tb), TopN)

\* lines 153-156
EESummary(md, tb) == SortValuesDesc(GroupByLabelEE(md), tb)

----------------------------------------------------------------------------
(* Heatmap table and CSV export, lines 163-173 *)

\* str(n) for an integer
RECURSIVE NatText(_)
NatText(n) ==
    LET d == CHOOSE c \in Digits : DigitVal(c) = n % 10
    IN  IF n < 10 THEN << d >> ELSE Append(NatText(n \div 10), d)

IntText(n) == IF n < 0 THEN << "-" >> \o NatText(0 - n) ELSE NatText(n)

\* pd.pivot_table(values="ESTAB", index="NAME", columns="NAICS2017_LABEL",
\* aggfunc="sum", fill_value=0): index and columns sorted
PivotTable(rows) ==
    LET index == SortedStrings({rows[i].NAME.txt : i \in 1..Len(rows)})
        columns == SortedTexts({rows[i].NAICS2017_LABEL : i \in 1..Len(rows)})
    IN  [index |-> index,
         columns |-> columns,
         values |-> [n \in 1..Len(index) |-> [c \in 1..Len(columns) |->
                       LET InCell(r) == /\ r.NAME.txt = index[n]
                                        /\ r.NAICS2017_LABEL = columns[c]
                       IN  SumEstab(SelectSeq(rows, InCell))]]]

\* heatmap_data.to_csv(): a header line, then one line per index value
ToCsv(h) ==
    [header |-> << "NAME" >> \o h.columns,
     lines |-> [n \in 1..Len(h.index) |->
                  [NAME |-> h.index[n],
                   cells |-> [c \in 1..Len(h.columns) |-> IntText(h.values[n][c])]]]]

----------------------------------------------------------------------------
(* Geography, lines 37-60 and the choropleth traces of lines 79-118 *)

\* Python's None, and the value dict.get gives for an absent property
None == "None"

\* the content of GEOJSON_PATH: one ZCTA with both centroid properties, one
\* whose latitude is the empty string, one without centroid properties
GeoJsonFile ==
    [features |-> <<
        [properties |-> [ZCTA5CE20 |-> << "2", "2", "9", "0", "2" >>,
                         INTPTLON20 |-> "-078.4", INTPTLAT20 |-> "+38.0"]],
        [properties |-> [ZCTA5CE20 |-> << "2", "4", "0", "1", "1" >>,
                         INTPTLON20 |-> "-079.9", INTPTLAT20 |-> ""]],
        [properties |-> [ZCTA5CE20 |-> << "2", "2", "9", "0", "3" >>,
                         INTPTLON20 |-> None, INTPTLAT20 |-> None]] >>]

\* truth value of a property in "if lon and lat"
Truthy(x) == x # None /\ x # ""

\* lines 51-57: the dict zip_centroids; a later feature of the same key wins.
\* float() of a well-formed decimal text is denoted by that text.
ZipCentroids(geojson) ==
    LET fs == geojson.features
        ok == {i \in 1..Len(fs) : /\ Truthy(fs[i].properties.INTPTLON20)
                                  /\ Truthy(fs[i].properties.INTPTLAT20)}
    IN  [z \in {fs[i].properties.ZCTA5CE20 : i \in ok} |->
           LET last == CHOOSE i \in ok : /\ fs[i].properties.ZCTA5CE20 = z
                                         /\ \A j \in ok :
                                              fs[j].properties.ZCTA5CE20 = z => j <= i
           IN  << fs[last].properties.INTPTLON20, fs[last].properties.INTPTLAT20 >>]

\* zip_centroids.get(z, (None, None))
CentroidGet(zc, z) == IF z \in DOMAIN zc THEN zc[z] ELSE << None, None >>

\* lines 47-60: zip_totals with its lon and lat columns
ZipTotals(ee_map, geojson) ==
    LET g == GroupByZip(ee_map.rows)
        zc == ZipCentroids(geojson)
    IN  [i \in 1..Len(g) |->
           [ZIP |-> ZFill(g[i].ZIP, ZipWidth),
            ESTAB |-> g[i].ESTAB,
            lon |-> CentroidGet(zc, ZFill(g[i].ZIP, ZipWidth))[1],
            lat |-> CentroidGet(zc, ZFill(g[i].ZIP, ZipWidth))[2]]]

\* a choropleth trace with featureidkey="properties.ZCTA5CE20": a location is
\* drawn when its value is equal to the ZCTA5CE20 of a feature; the others
\* are left out without an error
ChoroplethJoin(frame, geojson) ==
    LET Matches(r) == \E i \in 1..Len(geojson.features) :
                         geojson.features[i].properties.ZCTA5CE20 = r.ZIP
    IN  SelectSeq(frame, Matches)

\* variant of SelectedTotals: the overlay is given every row of zip_totals
SelectedTotalsAll(zt, zips) == zt

\* line 92: zip_totals[zip_totals["ZIP"].isin(final_selected_zips)]
SelectedTotals(zt, zips) ==
    LET Selected(r) == \E i \in 1..Len(zips) : zips[i] = r.ZIP
    IN  SelectSeq(zt, Selected)

\* the Scattermapbox labels of lines 110-118: a row without coordinates
\* gives no label
MapLabels(zt) ==
    LET Placed(r) == r.lon # None /\ r.lat # None
    IN  SelectSeq(zt, Placed)

----------------------------------------------------------------------------
(* Selection, lines 63-73 *)

\* line 64: sorted(ee_map["NAME"].dropna().unique())
AllNames(ee_map) ==
    SortedStrings({ee_map.rows[i].NAME.txt :
                     i \in {j \in 1..Len(ee_map.rows) : ee_map.rows[j].NAME.kind = "str"}})

\* line 67: ee_map.loc[ee_map["NAME"].isin(sidebar_selection), "ZIP"].unique(),
\* in order of first appearance
FinalSelectedZips(ee_map, selection) ==
    LET Chosen(r) == r.NAME.kind = "str" /\ r.NAME.txt \in selection
        chosen == SelectSeq(ee_map.rows, Chosen)
    IN  FirstSeen([i \in 1..Len(chosen) |-> chosen[i].ZIP])

\* variant of MultiData: the rows are filtered by the selected names themselves
MultiDataByName(ee_map, zips) ==
    LET Named(r) == r.NAME.kind = "str" /\ r.NAME.txt \in sidebar_selection
    IN  SelectSeq(ee_map.rows, Named)

\* line 73: ee_map[ee_map["ZIP"].isin(final_selected_zips)]
MultiData(ee_map, zips) ==
    LET InZips(r) == \E i \in 1..Len(zips) : zips[i] = r.ZIP
    IN  SelectSeq(ee_map.rows, InZips)

----------------------------------------------------------------------------
(* The inputs *)

\* "22902", "ZIP 22902" (a second name of the same ZIP) and "20001" (a ZIP
\* that has no feature in GeoJsonFile)
NameA == << "2", "2", "9", "0", "2" >>
NameB == << "Z", "I", "P", " ", "2", "2", "9", "0", "2" >>
NameC == << "2", "0", "0", "0", "1" >>

\* NAME cells of every shape the extraction distinguishes: a bare ZIP, text
\* around it, ZIP+4, a run of six digits, two runs, five digits that are not
\* consecutive, four digits, no digit, a number, a missing cell
NameCells ==
    { StrCell(NameA), StrCell(NameB), StrCell(NameC),
      StrCell(<< "2", "2", "9", "0", "2", "-", "1", "2", "3", "4" >>),
      StrCell(<< "2", "2", "9", "0", "2", "1" >>),
      StrCell(<< "V", "A", "0", "0", "1", "2", "3", " ", "2", "4", "0", "1", "1" >>),
      StrCell(<< "1", "2", "-", "3", "4", "5" >>),
      StrCell(<< "2", "2", "9", "0" >>),
      StrCell(<< "V", "A" >>),
      IntCell(22902),
      NaN }

\* ESTAB cells: integers, floats (in tenths), numeric and other text, missing
EstabCells ==
    { IntCell(3), IntCell(0 - 2), FloatCell(27), FloatCell(0 - 5), FloatCell(0 - 27),
      StrCell(<< "1", "2" >>), StrCell(<< "-", "4" >>), StrCell(<< "V", "A" >>), NaN }

\* the EE label the workbook attaches to a sector
EEOf(label) == IF label = "Retail" THEN "Low" ELSE "High"

RawRow(name, label, estab) ==
    [NAME |-> name, NAICS2017_LABEL |-> label, ESTAB |-> estab,
     EE_Opportunity |-> EEOf(label)]

\* rows of the aggregation-oriented input space
RowPool ==
    { RawRow(StrCell(n), l, IntCell(e)) :
        n \in {NameA, NameB, NameC}, l \in {"Construction", "Retail"}, e \in {1, 2} }

\* rows of the normalisation-oriented input space
RawRowPool == { RawRow(n, "Retail", e) : n \in NameCells, e \in EstabCells }

SeqsUpTo(S, n) == UNION { [1..k -> S] : k \in 0..n }

\* the "ZIP x Sector" sheet: one column per sector, no ESTAB column
PivotSheet ==
    [cols |-> {"NAME", "Construction", "Retail"},
     rows |-> << [NAME |-> StrCell(NameA), Construction |-> IntCell(1),
                  Retail |-> IntCell(0 - 1)] >>]

\* a workbook whose detail sheet holds rows; "Top5 by ZIP" holds the same
\* rows without the EE column
Workbook(exists, sheets, rows) ==
    [exists |-> exists,
     sheets |-> sheets,
     pivot |-> PivotSheet,
     top5 |-> [cols |-> {"NAME", "NAICS2017_LABEL", "ESTAB"},
               rows |-> [i \in 1..Len(rows) |->
                           [NAME |-> rows[i].NAME,
                            NAICS2017_LABEL |-> rows[i].NAICS2017_LABEL,
                            ESTAB |-> rows[i].ESTAB]]],
     detail |-> [cols |-> {"NAME", "NAICS2017_LABEL", "ESTAB", "EE_Opportunity"},
                 rows |-> rows]]

----------------------------------------------------------------------------
(* The script *)

EmptyPage ==
    [warning |-> FALSE, exception |-> "none", options |-> << >>, elements |-> {},
     fig_map |-> << >>, top5_chart |-> << >>, sector_totals |-> << >>,
     ee_summary |-> << >>, heatmap_data |-> << >>, csv_data |-> << >>]

\* a session starts with its first run; the multiselect has no default
StartOfSession ==
    /\ cache = [data |-> << >>, geo |-> << >>]
    /\ pc = "load_data"
    /\ outcome = "running"
    /\ sidebar_selection = {}
    /\ tables = << >>
    /\ geojson_data = << >>
    /\ zip_totals = << >>
    /\ final_selected_zips = << >>
    /\ multi_data = << >>
    /\ page = EmptyPage

Init ==
    /\ \E exists \in BOOLEAN, missing \in SUBSET SheetNames, rows \in SeqsUpTo(RowPool, MaxRows) :
         /\ Cardinality(missing) <= 1
         /\ disk = Workbook(exists, SheetNames \ missing, rows)
    /\ tieBreak \in {"keep", "reverse"}
    /\ StartOfSession

InitLoad ==
    /\ \E rows \in SeqsUpTo(RawRowPool, MaxRawRows) :
         disk = Workbook(TRUE, SheetNames, rows)
    /\ tieBreak \in {"keep", "reverse"}
    /\ StartOfSession

\* line 35: pivot, top5, ee_map = load_data(FILE_PATH).  An exception ends the
\* run; Streamlit shows it and nothing after line 35 is executed.
LoadData ==
    /\ pc = "load_data"
    /\ LET r == CachedLoadData(cache.data, disk)
       IN  IF r.error # "none"
           THEN /\ page' = [page EXCEPT !.exception = r.error]
                /\ pc' = "idle"
                /\ outcome' = "error"
                /\ UNCHANGED << cache, tables >>
           ELSE /\ cache' = [cache EXCEPT !.data = r.value]
                /\ tables' = r.value
                /\ pc' = "load_geojson"
                /\ UNCHANGED << page, outcome >>
    /\ UNCHANGED << disk, tieBreak, sidebar_selection, geojson_data, zip_totals,
                    final_selected_zips, multi_data >>

\* line 44: geojson_data = load_geojson(GEOJSON_PATH), memoised like load_data
LoadGeojson ==
    /\ pc = "load_geojson"
    /\ LET g == IF cache.geo # << >> THEN cache.geo ELSE << GeoJsonFile >>
       IN  /\ cache' = [cache EXCEPT !.geo = g]
           /\ geojson_data' = g
    /\ pc' = "totals"
    /\ UNCHANGED << disk, tieBreak, outcome, sidebar_selection, tables, zip_totals,
                    final_selected_zips, multi_data, page >>

\* variant of PrepareTotals: the memoised frame is shared with the script and
\* the label columns are added to it in place
PrepareTotalsInPlace ==
    /\ pc = "totals"
    /\ zip_totals' = ZipTotals(tables[1].ee_map, geojson_data[1])
    /\ cache' = [cache EXCEPT !.data =
                   << [@[1] EXCEPT !.ee_map.cols = @ \cup {"lon", "lat"}] >>]
    /\ pc' = "sidebar"
    /\ UNCHANGED << disk, tieBreak, outcome, sidebar_selection, tables,
                    geojson_data, final_selected_zips, multi_data, page >>

\* lines 46-60: zip_totals is a new frame; the columns are added to it
PrepareTotals ==
    /\ pc = "totals"
    /\ zip_totals' = ZipTotals(tables[1].ee_map, geojson_data[1])
    /\ pc' = "sidebar"
    /\ UNCHANGED << disk, tieBreak, cache, outcome, sidebar_selection, tables,
                    geojson_data, final_selected_zips, multi_data, page >>

\* variant of Sidebar: the warning is shown but st.stop() is not called
SidebarNoStop ==
    /\ pc = "sidebar"
    /\ LET all_names == AllNames(tables[1].ee_map)
           zips == FinalSelectedZips(tables[1].ee_map, sidebar_selection)
       IN  /\ final_selected_zips' = zips
           /\ page' = [page EXCEPT !.options = all_names, !.warning = (Len(zips) = 0)]
           /\ pc' = "render"
           /\ UNCHANGED outcome
    /\ UNCHANGED << disk, tieBreak, cache, sidebar_selection, tables, geojson_data,
                    zip_totals, multi_data >>

\* lines 63-71: the multiselect, the resolution of names to ZIPs, and the
\* warning with st.stop() when no ZIP is selected
Sidebar ==
    /\ pc = "sidebar"
    /\ LET all_names == AllNames(tables[1].ee_map)
           zips == FinalSelectedZips(tables[1].ee_map, sidebar_selection)
       IN  /\ final_selected_zips' = zips
           /\ IF Len(zips) = 0
              THEN /\ page' = [page EXCEPT !.options = all_names, !.warning = TRUE]
                   /\ pc' = "idle"
                   /\ outcome' = "stopped"
              ELSE /\ page' = [page EXCEPT !.options = all_names]
                   /\ pc' = "render"
                   /\ UNCHANGED outcome
    /\ UNCHANGED << disk, tieBreak, cache, sidebar_selection, tables, geojson_data,
                    zip_totals, multi_data >>

\* lines 73-179: the filtered detail rows and every element drawn from them
Render ==
    /\ pc = "render"
    /\ LET md == MultiData(tables[1].ee_map, final_selected_zips)
           selected_totals == SelectedTotals(zip_totals, final_selected_zips)
           heatmap_data == PivotTable(md)
       IN  /\ multi_data' = md
           /\ page' = [page EXCEPT
                 !.elements = {"map", "top5", "pie", "heatmap", "download"} \cup
                              (IF "EE_Opportunity" \in tables[1].ee_map.cols
                               THEN {"ee_summary"} ELSE {"info"}),
                 !.fig_map = << [base |-> ChoroplethJoin(zip_totals, geojson_data[1]),
                                 overlay |-> ChoroplethJoin(selected_totals, geojson_data[1]),
                                 labels |-> MapLabels(zip_totals)] >>,
                 !.top5_chart = Top5Chart(md, tieBreak),
                 !.sector_totals = SectorTotals(md, tieBreak),
                 !.ee_summary = IF "EE_Opportunity" \in tables[1].ee_map.cols
                                THEN EESummary(md, tieBreak) ELSE << >>,
                 !.heatmap_data = << heatmap_data >>,
                 !.csv_data = << ToCsv(heatmap_data) >>]
    /\ pc' = "idle"
    /\ outcome' = "done"
    /\ UNCHANGED << disk, tieBreak, cache, sidebar_selection, tables, geojson_data,
                    zip_totals, final_selected_zips >>

\* the script's globals at the start of a run
NewRun ==
    /\ pc' = "load_data"
    /\ outcome' = "running"
    /\ tables' = << >>
    /\ geojson_data' = << >>
    /\ zip_totals' = << >>
    /\ final_selected_zips' = << >>
    /\ multi_data' = << >>
    /\ page' = EmptyPage
    /\ UNCHANGED << disk, tieBreak, cache >>

\* the user changes the multiselect, whose options are those of the last
\* page; Streamlit reruns the script
Select ==
    /\ pc = "idle"
    /\ outcome \in {"stopped", "done"}
    /\ \E S \in SUBSET {page.options[i] : i \in 1..Len(page.options)} :
         /\ S # sidebar_selection
         /\ sidebar_selection' = S
    /\ NewRun

\* the user reruns the script without touching a widget
Rerun ==
    /\ pc = "idle"
    /\ UNCHANGED sidebar_selection
    /\ NewRun

Next ==
    \/ LoadData
    \/ LoadGeojson
    \/ PrepareTotals
    \/ Sidebar
    \/ Render
    \/ Select
    \/ Rerun

Spec == Init /\ [][Next]_vars

SpecLoad == InitLoad /\ [][Next]_vars

----------------------------------------------------------------------------
(* Vocabulary of the properties *)

\* load_data has returned in the current run
Loaded == tables # << >>
\* zip_totals of the current run has been computed
TotalsReady == pc \in {"sidebar", "render"} \/ (pc = "idle" /\ outcome \in {"stopped", "done"})
\* the last run ended in st.stop() / ran to the last line
Stopped == pc = "idle" /\ outcome = "stopped"
Done == pc = "idle" /\ outcome = "done"

RawRows == disk.detail.rows
EERows == tables[1].ee_map.rows

IsFiveDigits(z) == Len(z) = 5 /\ \A k \in 1..5 : z[k] \in Digits

\* s holds five consecutive digits starting at position i
RunAt(s, i) == i >= 1 /\ i + 4 <= Len(s) /\ \A k \in i..(i + 4) : s[k] \in Digits
HasRun(cell) == cell.kind = "str" /\ \E i \in 1..Len(cell.txt) : RunAt(cell.txt, i)
FirstRun(cell) ==
    LET i == CHOOSE x \in 1..Len(cell.txt) :
                 RunAt(cell.txt, x) /\ \A y \in 1..(x - 1) : ~RunAt(cell.txt, y)
    IN  SubSeq(cell.txt, i, i + 4)

IsDigitChar(c) == c \in Digits
DigitsOf(cell) == IF cell.kind = "str" THEN SelectSeq(cell.txt, IsDigitChar) ELSE << >>

\* the rows of ee_map that come from row j of the sheet
Retained(j) == {i \in 1..Len(EERows) : EERows[i].idx = j}

----------------------------------------------------------------------------
(* C1 *)

\* C1 as claimed: every record of ee_map has a five-digit zip whose first
\* three digits are in the valid-prefix set (the others having been dropped).
C1_PrefixFiltered ==
    Loaded => \A i \in 1..Len(EERows) :
                 /\ IsFiveDigits(EERows[i].ZIP)
                 /\ SubSeq(EERows[i].ZIP, 1, 3) \in ValidPrefixes

\* C1 as amended: every record of ee_map has a zip of exactly five decimal
\* digits, which occurs in its NAME; no prefix is filtered: a record whose
\* NAME holds five consecutive digits is retained whatever they are, and its
\* zip and name reach zip_totals and the selection list.
C1_FiveDigitsNoPrefixFilter ==
    Loaded =>
      /\ \A i \in 1..Len(EERows) :
            /\ IsFiveDigits(EERows[i].ZIP)
            /\ \E k \in 1..Len(EERows[i].NAME.txt) :
                  /\ RunAt(EERows[i].NAME.txt, k)
                  /\ SubSeq(EERows[i].NAME.txt, k, k + 4) = EERows[i].ZIP
      /\ \A j \in 1..Len(RawRows) : HasRun(RawRows[j].NAME) => Retained(j) # {}
      /\ TotalsReady =>
            \A i \in 1..Len(EERows) :
               /\ \E k \in 1..Len(zip_totals) : zip_totals[k].ZIP = EERows[i].ZIP
               /\ pc = "idle" =>
                     \E k \in 1..Len(page.options) : page.options[k] = EERows[i].NAME.txt

\* a record with a prefix outside the set is in ee_map and in zip_totals
C1_Witness ==
    /\ Loaded /\ pc = "sidebar"
    /\ \E i \in 1..Len(EERows) :
          /\ SubSeq(EERows[i].ZIP, 1, 3) \notin ValidPrefixes
          /\ \E k \in 1..Len(zip_totals) : zip_totals[k].ZIP = EERows[i].ZIP

----------------------------------------------------------------------------
(* C2 *)

\* C2 as claimed: a record whose NAME holds at least five digits in total is
\* retained, with the first run of five digits or else the first five digits
\* left after stripping the non-digits.
C2_FallbackRecovers ==
    Loaded => \A j \in 1..Len(RawRows) :
                 Len(DigitsOf(RawRows[j].NAME)) >= 5 =>
                    \E i \in Retained(j) :
                       EERows[i].ZIP = IF HasRun(RawRows[j].NAME)
                                       THEN FirstRun(RawRows[j].NAME)
                                       ELSE SubSeq(DigitsOf(RawRows[j].NAME), 1, 5)

\* C2 as amended: a record is retained exactly when its NAME holds five
\* consecutive digits, and its zip is the first such run; there is no
\* fallback, so a NAME whose digits are not consecutive loses the record.
C2_FirstRunOrDropped ==
    Loaded => \A j \in 1..Len(RawRows) :
                 IF HasRun(RawRows[j].NAME)
                 THEN /\ Cardinality(Retained(j)) = 1
                      /\ \A i \in Retained(j) : EERows[i].ZIP = FirstRun(RawRows[j].NAME)
                 ELSE Retained(j) = {}

\* a NAME with five digits in total and no run of five has lost its record
C2_Witness ==
    /\ Loaded
    /\ \E j \in 1..Len(RawRows) :
          /\ Len(DigitsOf(RawRows[j].NAME)) >= 5
          /\ ~HasRun(RawRows[j].NAME)
          /\ Retained(j) = {}

----------------------------------------------------------------------------
(* C3 *)

\* the integer a raw ESTAB cell stands for, NaN and other text counting as 0
\* and a float being cut toward zero
IsCountOf(n, cell) ==
    CASE cell.kind = "nan" -> n = 0
      [] cell.kind = "int" -> n = cell.num
      [] cell.kind = "float" ->
            /\ n * cell.num >= 0
            /\ IF cell.num >= 0 THEN 10 * n <= cell.num /\ cell.num < 10 * n + 10
                                ELSE 10 * n >= cell.num /\ cell.num > 10 * n - 10
      [] cell.kind = "str" ->
            IF cell.txt # << >> /\ AllDigits(cell.txt) THEN n = DecimalValue(cell.txt)
            ELSE IF Len(cell.txt) > 1 /\ Head(cell.txt) = "-" /\ AllDigits(Tail(cell.txt))
                 THEN n = 0 - DecimalValue(Tail(cell.txt))
                 ELSE n = 0

\* C3 as claimed: after the coercion every ESTAB of every loaded table is a
\* non-negative integer.
C3_NonNegative ==
    Loaded =>
      /\ \A i \in 1..Len(tables[1].top5.rows) : tables[1].top5.rows[i].ESTAB \in Nat
      /\ \A i \in 1..Len(EERows) : EERows[i].ESTAB \in Nat

\* C3 as amended: after the coercion every ESTAB of every loaded table is an
\* integer: 0 for a missing or non-numeric cell, the number cut toward zero
\* otherwise, its sign kept, so that a negative raw number stays below 0; a
\* table without an ESTAB column is left as read.
C3_IntegerSignKept ==
    Loaded =>
      /\ Len(tables[1].top5.rows) = Len(disk.top5.rows)
      /\ \A i \in 1..Len(tables[1].top5.rows) :
            /\ tables[1].top5.rows[i].ESTAB \in Int
            /\ IsCountOf(tables[1].top5.rows[i].ESTAB, disk.top5.rows[i].ESTAB)
      /\ \A i \in 1..Len(EERows) :
            /\ EERows[i].ESTAB \in Int
            /\ IsCountOf(EERows[i].ESTAB, RawRows[EERows[i].idx].ESTAB)
      /\ tables[1].pivot = disk.pivot

\* a negative raw number has left a count below 0 in both tables
C3_Witness ==
    /\ Loaded
    /\ \E i \in 1..Len(EERows) :
          /\ RawRows[EERows[i].idx].ESTAB.kind \in {"int", "float"}
          /\ EERows[i].ESTAB < 0
    /\ \E i \in 1..Len(tables[1].top5.rows) : tables[1].top5.rows[i].ESTAB < 0

----------------------------------------------------------------------------
(* C4 *)

Elements == {"map", "top5", "pie", "ee_summary", "heatmap", "download"}

NothingRendered ==
    /\ page.elements = {}
    /\ page.fig_map = << >>
    /\ page.top5_chart = << >>
    /\ page.sector_totals = << >>
    /\ page.ee_summary = << >>
    /\ page.heatmap_data = << >>
    /\ page.csv_data = << >>
    /\ multi_data = << >>

\* C4: a run that reaches the sidebar with an empty selection (or one that
\* resolves to no ZIP) ends in st.stop() with the warning, no exception and
\* no map, aggregate, table or export; a run with a selection that resolves
\* to a ZIP renders every element and shows no warning.
C4_EmptySelectionStops ==
    /\ pc = "render" => final_selected_zips # << >> /\ sidebar_selection # {}
    /\ (pc = "idle" /\ outcome \in {"stopped", "done"}) =>
          IF sidebar_selection = {} \/ final_selected_zips = << >>
          THEN /\ outcome = "stopped"
               /\ page.warning
               /\ page.exception = "none"
               /\ NothingRendered
          ELSE /\ outcome = "done"
               /\ ~page.warning
               /\ page.exception = "none"
               /\ page.elements = Elements
               /\ page.fig_map # << >>
               /\ page.sector_totals # << >>
               /\ page.csv_data # << >>

\* a run has stopped on the empty selection although names could be selected
C4_Witness ==
    /\ Stopped
    /\ sidebar_selection = {}
    /\ page.warning
    /\ page.options # << >>

----------------------------------------------------------------------------
(* C5 *)

Descending(frame) ==
    \A a, b \in 1..Len(frame) : a < b => frame[a].ESTAB >= frame[b].ESTAB

\* position in multi_data of the first record of a sector
FirstPos(label) ==
    CHOOSE i \in 1..Len(multi_data) :
       /\ multi_data[i].NAICS2017_LABEL = label
       /\ \A j \in 1..(i - 1) : multi_data[j].NAICS2017_LABEL # label

\* C5 as claimed: sector_totals (and top5_chart) is in descending order of
\* total, and sectors of equal total are in the order in which they first
\* occur in the selected records.
C5_StableByInputOrder ==
    Done =>
      /\ Descending(page.sector_totals)
      /\ \A a, b \in 1..Len(page.sector_totals) :
            (a < b /\ page.sector_totals[a].ESTAB = page.sector_totals[b].ESTAB) =>
               FirstPos(page.sector_totals[a].NAICS2017_LABEL)
                  < FirstPos(page.sector_totals[b].NAICS2017_LABEL)

\* C5 as amended: sector_totals lists every sector of the selected records
\* once, with the sum of its counts, in descending order of total, and
\* top5_chart is its first TopN rows; the order of sectors of equal total is
\* not the order of first occurrence in the input.
C5_DescendingTotals ==
    Done =>
      /\ Descending(page.sector_totals)
      /\ {page.sector_totals[k].NAICS2017_LABEL : k \in 1..Len(page.sector_totals)}
            = {multi_data[i].NAICS2017_LABEL : i \in 1..Len(multi_data)}
      /\ \A a, b \in 1..Len(page.sector_totals) :
            a # b => page.sector_totals[a].NAICS2017_LABEL
                        # page.sector_totals[b].NAICS2017_LABEL
      /\ \A k \in 1..Len(page.sector_totals) :
            LET InSector(r) == r.NAICS2017_LABEL = page.sector_totals[k].NAICS2017_LABEL
            IN  page.sector_totals[k].ESTAB = SumEstab(SelectSeq(multi_data, InSector))
      /\ Len(page.top5_chart) <= TopN
      /\ page.top5_chart = SubSeq(page.sector_totals, 1, Len(page.top5_chart))
      /\ Len(page.sector_totals) <= TopN => page.top5_chart = page.sector_totals

\* two sectors of equal total are listed against their order of first
\* occurrence in the selected records
C5_Witness ==
    /\ Done
    /\ \E a, b \in 1..Len(page.sector_totals) :
          /\ a < b
          /\ page.sector_totals[a].ESTAB = page.sector_totals[b].ESTAB
          /\ FirstPos(page.sector_totals[a].NAICS2017_LABEL)
                > FirstPos(page.sector_totals[b].NAICS2017_LABEL)

----------------------------------------------------------------------------
(* C6 *)

Permute(rows, p) == [i \in 1..Len(rows) |-> rows[p[i]]]

\* C6: the aggregates of a run are those of every reordering of its input
\* records: zip_totals is the same for every permutation of ee_map, and
\* sector_totals, top5_chart and the EE summary are the same for every
\* permutation of the selected records (the identity included: computing
\* them again gives them again).
C6_OrderIndependent ==
    /\ pc = "sidebar" =>
          \A p \in Permutations(1..Len(EERows)) :
             ZipTotals([tables[1].ee_map EXCEPT !.rows = Permute(EERows, p)],
                       geojson_data[1]) = zip_totals
    /\ Done =>
          \A p \in Permutations(1..Len(multi_data)) :
             /\ SectorTotals(Permute(multi_data, p), tieBreak) = page.sector_totals
             /\ Top5Chart(Permute(multi_data, p), tieBreak) = page.top5_chart
             /\ EESummary(Permute(multi_data, p), tieBreak) = page.ee_summary

\* sectors of equal total, first met in the input in the order opposite to
\* the one of their labels
C6_Witness ==
    /\ Done
    /\ \E i, j \in 1..Len(multi_data) :
          /\ i < j
          /\ TextOrd[multi_data[i].NAICS2017_LABEL] > TextOrd[multi_data[j].NAICS2017_LABEL]
          /\ \E a, b \in 1..Len(page.sector_totals) :
                /\ a # b
                /\ page.sector_totals[a].ESTAB = page.sector_totals[b].ESTAB
                /\ page.sector_totals[a].NAICS2017_LABEL = multi_data[i].NAICS2017_LABEL
                /\ page.sector_totals[b].NAICS2017_LABEL = multi_data[j].NAICS2017_LABEL

----------------------------------------------------------------------------
(* C7 *)

SelectedZips == {final_selected_zips[i] : i \in 1..Len(final_selected_zips)}
FeatureKeys ==
    {geojson_data[1].features[i].properties.ZCTA5CE20 :
       i \in 1..Len(geojson_data[1].features)}
Overlay == page.fig_map[1].overlay

\* C7: the highlighted overlay holds, once each and with its total, exactly
\* the selected ZIPs that are equal to the ZCTA5CE20 of a feature; a selected
\* ZIP without a feature raises nothing and its records stay in multi_data,
\* the sector totals, the EE summary and the heatmap table.
C7_OverlayIsExactJoin ==
    Done =>
      /\ page.exception = "none"
      /\ {Overlay[k].ZIP : k \in 1..Len(Overlay)} = SelectedZips \cap FeatureKeys
      /\ \A a, b \in 1..Len(Overlay) : a # b => Overlay[a].ZIP # Overlay[b].ZIP
      /\ \A k \in 1..Len(Overlay) :
            LET OfZip(r) == r.ZIP = Overlay[k].ZIP
            IN  Overlay[k].ESTAB = SumEstab(SelectSeq(EERows, OfZip))
      /\ \A i \in 1..Len(EERows) :
            EERows[i].ZIP \in SelectedZips =>
               /\ \E m \in 1..Len(multi_data) : multi_data[m] = EERows[i]
               /\ \E n \in 1..Len(page.heatmap_data[1].index) :
                     page.heatmap_data[1].index[n] = EERows[i].NAME.txt
               /\ \E k \in 1..Len(page.sector_totals) :
                     page.sector_totals[k].NAICS2017_LABEL = EERows[i].NAICS2017_LABEL
               /\ \E k \in 1..Len(page.ee_summary) :
                     /\ page.ee_summary[k].NAICS2017_LABEL = EERows[i].NAICS2017_LABEL
                     /\ page.ee_summary[k].EE_Opportunity = EERows[i].EE_Opportunity
      /\ SumEstab(page.sector_totals) = SumEstab(multi_data)
      /\ SumEstab(page.ee_summary) = SumEstab(multi_data)

\* a ZIP with a feature and a ZIP without one are selected: the overlay holds
\* the first only, the heatmap table holds the names of both
C7_Witness ==
    /\ Done
    /\ SelectedZips \ FeatureKeys # {}
    /\ Len(Overlay) = 1
    /\ \E i \in 1..Len(multi_data) :
          /\ multi_data[i].ZIP \notin FeatureKeys
          /\ \E n \in 1..Len(page.heatmap_data[1].index) :
                page.heatmap_data[1].index[n] = multi_data[i].NAME.txt

----------------------------------------------------------------------------
(* C8 *)

Broken == ~disk.exists \/ disk.sheets # SheetNames

\* C8: with the workbook missing or one of the three sheets missing, every
\* run ends at load_data with the exception shown to the user: nothing is
\* memoised or returned, and no total, selection list, warning, map,
\* aggregate, table or export is produced.
C8_LoadFailureIsFatal ==
    Broken =>
      /\ pc \in {"load_data", "idle"}
      /\ cache.data = << >>
      /\ tables = << >>
      /\ zip_totals = << >>
      /\ final_selected_zips = << >>
      /\ page.options = << >>
      /\ ~page.warning
      /\ NothingRendered
      /\ pc = "load_data" => page.exception = "none"
      /\ pc = "idle" =>
            /\ outcome = "error"
            /\ page.exception = IF disk.exists THEN "ValueError" ELSE "FileNotFoundError"

\* a run has ended on a missing sheet of an existing workbook that has rows
C8_Witness ==
    /\ pc = "idle" /\ outcome = "error"
    /\ disk.exists
    /\ "With EE Mapping" \notin disk.sheets
    /\ disk.detail.rows # << >>

----------------------------------------------------------------------------
(* C9 *)

\* C9: once written, the memo of load_data and of load_geojson never changes,
\* whatever is selected and derived; the tables a run works on are the
\* memoised ones, which are what load_data computes from the workbook.
C9_CacheWrittenOnce ==
    [][ /\ cache.data # << >> => cache'.data = cache.data
        /\ cache.geo # << >> => cache'.geo = cache.geo
        /\ tables' # << >> => /\ tables' = cache'.data
                              /\ tables' = LoadDataBody(disk).value
        /\ geojson_data' # << >> => geojson_data' = cache'.geo
      ]_vars

\* a run after the first has rendered, with a centroid column filled in
C9_Witness ==
    /\ Done
    /\ cache.data # << >> /\ tables = cache.data
    /\ \E k \in 1..Len(zip_totals) : zip_totals[k].lon # None
    /\ Len(multi_data) < Len(EERows)

----------------------------------------------------------------------------
(* C10 *)

\* the ZIPs of the records whose name is selected
ZipsOfSelection ==
    {EERows[i].ZIP : i \in {j \in 1..Len(EERows) : EERows[j].NAME.txt \in sidebar_selection}}

\* C10: multi_data is, in the order of ee_map, exactly the records whose zip
\* is the zip of a selected name, under whatever name; the heatmap table and
\* the CSV export are indexed by the names of all of them.
C10_FilterByResolvedZip ==
    Done =>
      /\ SelectedZips = ZipsOfSelection
      /\ LET InSelection(r) == r.ZIP \in ZipsOfSelection
         IN  multi_data = SelectSeq(EERows, InSelection)
      /\ {page.heatmap_data[1].index[n] : n \in 1..Len(page.heatmap_data[1].index)}
            = {EERows[i].NAME.txt : i \in {j \in 1..Len(EERows) :
                                             EERows[j].ZIP \in ZipsOfSelection}}
      /\ Len(page.csv_data[1].lines) = Len(page.heatmap_data[1].index)
      /\ \A n \in 1..Len(page.csv_data[1].lines) :
            page.csv_data[1].lines[n].NAME = page.heatmap_data[1].index[n]
      /\ SumEstab(page.sector_totals) = SumEstab(multi_data)

\* one of two names of a ZIP is selected and the records of the other name are
\* in multi_data and in the heatmap table
C10_Witness ==
    /\ Done
    /\ sidebar_selection # {}
    /\ \E i \in 1..Len(multi_data) :
          /\ multi_data[i].NAME.txt \notin sidebar_selection
          /\ \E n \in 1..Len(page.heatmap_data[1].index) :
                page.heatmap_data[1].index[n] = multi_data[i].NAME.txt

====
